---- MODULE Spec2Model ----
(***************************************************************************)
(* A model of SimpleWallet (simple-ethereum-cli-wallet): the transfer      *)
(* engine (SimpleWallet.transfer) and the balance scanner                  *)
(* (SimpleWallet.listWalletsWithBalance), with the remote ledger           *)
(* (viem public / wallet client) as a nondeterministic environment.        *)
(*                                                                         *)
(* Quantities.  Balances, fees and transaction values are integers in wei. *)
(* An amount typed by the user is a decimal string that may carry more     *)
(* digits than a wei has, so an amount is counted in "ticks", TicksPerWei  *)
(* ticks to the wei.  parseEther rounds ticks to wei (half up);            *)
(* parseFloat rounds to a binary float of MantissaBits significant bits    *)
(* (an IEEE double has 53; the model keeps the rounding and scales the     *)
(* width down so that the loss of precision happens at small numbers).     *)
(***************************************************************************)
EXTENDS Integers, Sequences, FiniteSets, TLC

\* ------------------------------------------------------------------ bounds
MaxPhrases == 2
MaxIndex == 2
MaxWei == 4
MaxGasPrice == 1
TicksPerWei == 4
MantissaBits == 2

\* --------------------------------------------------------- program constants
estimatedGas == 21000

\* ------------------------------------------------------------- seed phrases
\* A seed phrase is the sequence of its words.
PhraseA == <<"test", "test", "test", "junk">>
PhraseB == <<"legal", "winner", "thank", "year">>
PhraseBad == <<"not", "a", "mnemonic">>
Phrases == {PhraseA, PhraseB, PhraseBad}

\* mnemonicToAccount throws for a phrase that is no valid mnemonic.
ValidMnemonic(p) == p \in {PhraseA, PhraseB}

\* getAccountFromSeed: the account of (seed phrase, index).  The address is a
\* deterministic, injective function of the pair.
getAccountFromSeed(seedPhrase, index) ==
    IF ValidMnemonic(seedPhrase)
    THEN [ok |-> TRUE, address |-> <<seedPhrase, index>>]
    ELSE [ok |-> FALSE, address |-> <<>>]

\* seedPhrase.split(" ").slice(0, 3).join(" ") + "..."
SeedLabel(seedPhrase) ==
    SubSeq(seedPhrase, 1, IF Len(seedPhrase) < 3 THEN Len(seedPhrase) ELSE 3)

\* ------------------------------------------------------------- conversions
RECURSIVE Pow2(_)
Pow2(n) == IF n = 0 THEN 1 ELSE 2 * Pow2(n - 1)

\* The number of bits of x > 0: the e with 2^(e-1) <= x < 2^e.
RECURSIVE BitLen(_)
BitLen(x) == IF x = 0 THEN 0 ELSE 1 + BitLen(x \div 2)

\* Round a non-negative tick count to the nearest float of MantissaBits
\* significant bits, ties to even.
RoundToFloat(x) ==
    IF BitLen(x) <= MantissaBits THEN x
    ELSE LET ulp == Pow2(BitLen(x) - MantissaBits)
             q == x \div ulp
             r == x % ulp
         IN  IF 2 * r < ulp THEN q * ulp
             ELSE IF 2 * r > ulp THEN (q + 1) * ulp
             ELSE IF q % 2 = 0 THEN q * ulp ELSE (q + 1) * ulp

\* formatEther(balance): the exact decimal string of a wei amount, here the
\* number of ticks it denotes.
formatEther(wei) == [form |-> "decimal", ticks |-> wei * TicksPerWei]

\* parseFloat(text): NaN for text with no numeric prefix, else the float
\* nearest to the numeric prefix.
parseFloat(text) ==
    CASE text.form = "garbage" -> [nan |-> TRUE, v |-> 0]
      [] text.form = "negative" -> [nan |-> FALSE, v |-> 0 - RoundToFloat(text.ticks)]
      [] OTHER -> [nan |-> FALSE, v |-> RoundToFloat(text.ticks)]

\* a > b on floats: false when either side is NaN.
FloatGreater(a, b) == ~a.nan /\ ~b.nan /\ a.v > b.v

\* Math.round of ticks / TicksPerWei (half up), as parseUnits does with the
\* digits beyond the 18th.
RoundTicks(ticks) == (2 * ticks + TicksPerWei) \div (2 * TicksPerWei)

\* parseEther(text): wei, or a throw for text that is no decimal number.
parseEther(text) ==
    CASE text.form = "decimal" -> [ok |-> TRUE, wei |-> RoundTicks(text.ticks)]
      [] text.form = "negative" -> [ok |-> TRUE, wei |-> 0 - RoundTicks(text.ticks)]
      [] OTHER -> [ok |-> FALSE, wei |-> 0]

\* ------------------------------------------------------------------ inputs
MaxAmountTicks == (MaxWei + 1) * TicksPerWei + TicksPerWei - 1

\* amountEth as typed: a non-negative decimal, a negative decimal, text that
\* is no number ("abc"), or a number followed by other text ("1abc", "1e2").
AmountTexts ==
    [form : {"decimal"}, ticks : 0..MaxAmountTicks]
        \cup [form : {"negative"}, ticks : {TicksPerWei, 2 * TicksPerWei + 1}]
        \cup [form : {"garbage"}, ticks : {0}]
        \cup [form : {"trailing"}, ticks : {TicksPerWei}]

\* toAddress as typed: isAddress(toAddress) holds of "0xRecipient" only.
AddressTexts == {"0xRecipient", "notAnAddress"}
isAddress(a) == a = "0xRecipient"

\* What getBalance can answer for the signer: small balances, and the same
\* above the fee of a transfer.
Balances == (0..MaxWei) \cup {estimatedGas * g + b : g \in 1..MaxGasPrice, b \in 0..MaxWei}
GasPrices == 0..MaxGasPrice

\* What getBalance can answer for a scanned account.
ScanBalances == {0, 1}

\* ------------------------------------------------------------------- state
VARIABLES
    seedPhrases,         \* SimpleWallet.seedPhrases
    op,                  \* the call in progress: "idle", "transfer", "scan"
    \* transfer
    tpc,                 \* the step of the transfer call
    req,                 \* its arguments
    balance,             \* const balance (-1: not read)
    gasPrice,            \* const gasPrice (-1: not read)
    sentValue,           \* value of the submitted transaction
    outcome,             \* "none", "hash" (returned) or the error thrown
    calls,               \* the remote calls made by this call, in order
    \* listWalletsWithBalance
    spc,                 \* "none", "loop", "returned"
    maxIndex,
    phrasePos,           \* position of the outer loop in seedPhrases
    i,                   \* inner loop index
    walletsWithBalance,
    visited,             \* per iteration: what was derived and answered
    \* checkBalance
    cbpc,                \* the step of the checkBalance call
    cbAddress,           \* its argument
    cbAnswer,            \* const balance (-1: not read)
    cbCalls,             \* the getBalance calls made by this call
    cbResult,            \* "none", the string returned or the error thrown
    \* main (command-line mode)
    args,                \* process.argv.slice(2)
    cliOut,              \* what the command did
    \* process.env, as the constructor reads it
    env

transferVars == <<tpc, req, balance, gasPrice, sentValue, outcome, calls>>
scanVars == <<spc, maxIndex, phrasePos, i, walletsWithBalance, visited>>
balanceVars == <<cbpc, cbAddress, cbAnswer, cbCalls, cbResult>>
cliVars == <<args, cliOut>>
vars == <<seedPhrases, op, transferVars, scanVars, balanceVars, cliVars, env>>

NoResult == [kind |-> "none", text |-> <<>>]
NoCliOut == [did |-> "none", seedPhrase |-> <<>>, walletIndex |-> 0, shown |-> <<>>]
NoEnv == [numbered |-> <<>>, legacy |-> <<>>]

NoReq == [seedPhrase |-> <<>>, walletIndex |-> 0, toAddress |-> "", amountEth |-> [form |-> "garbage", ticks |-> 0]]

RECURSIVE SeqsUpTo(_, _)
SeqsUpTo(S, n) ==
    IF n = 0 THEN {<<>>}
    ELSE LET shorter == SeqsUpTo(S, n - 1)
         IN  shorter \cup {Append(s, x) : s \in shorter, x \in S}

\* ------------------------------------------------------------- constructor
\* A string of the environment: a text with or without blanks around it.  The
\* text is a seed phrase or empty; trim() gives the text.
Unset == [set |-> FALSE, pad |-> FALSE, text |-> <<>>]
Raw(pad, text) == [set |-> TRUE, pad |-> pad, text |-> text]
trim(raw) == raw.text

\* !phrase || phrase.trim().length === 0
Blank(value) == ~value.set \/ (~value.pad /\ value.text = <<>>) \/ trim(value) = <<>>

\* The values a numbered key PHRASES_k can have, and the segments a PHRASES
\* value can have between its ';' and newlines.
KeyValues ==
    {Unset, Raw(FALSE, <<>>), Raw(TRUE, <<>>), Raw(FALSE, PhraseA), Raw(TRUE, PhraseA),
     Raw(FALSE, PhraseB), Raw(FALSE, PhraseBad)}
Segments == {Raw(FALSE, <<>>), Raw(FALSE, PhraseA), Raw(TRUE, PhraseB), Raw(FALSE, PhraseBad)}

\* process.env: PHRASES_0 .. PHRASES_(MaxPhrases - 1) (later keys are unset)
\* and PHRASES, unset (no segments) or split into its segments.
Envs ==
    [numbered : {v \in SeqsUpTo(KeyValues, MaxPhrases) : Len(v) = MaxPhrases},
     legacy : SeqsUpTo(Segments, MaxPhrases)]

\* while (true) { phrase = process.env[`PHRASES_${index}`];
\*   if (!phrase || phrase.trim().length === 0) break;
\*   this.seedPhrases.push(phrase.trim()); index++ }
RECURSIVE NumberedFrom(_, _)
NumberedFrom(numbered, index) ==
    IF index >= Len(numbered) \/ Blank(numbered[index + 1]) THEN <<>>
    ELSE <<trim(numbered[index + 1])>> \o NumberedFrom(numbered, index + 1)

\* .map((p) => p.trim()) without the filter.
RECURSIVE TrimAll(_)
TrimAll(segs) ==
    IF segs = <<>> THEN <<>> ELSE <<trim(Head(segs))>> \o TrimAll(Tail(segs))

\* phrases.split(/[;\n]/).map((p) => p.trim()).filter((p) => p.length > 0)
RECURSIVE SplitTrimFilter(_)
SplitTrimFilter(segs) ==
    IF segs = <<>> THEN <<>>
    ELSE IF trim(Head(segs)) = <<>> THEN SplitTrimFilter(Tail(segs))
    ELSE <<trim(Head(segs))>> \o SplitTrimFilter(Tail(segs))

\* if (phrases): a PHRASES that is set and not the empty string.
Truthy(legacy) == legacy # <<>> /\ legacy # <<Raw(FALSE, <<>>)>>

\* The constructor with the filter of the legacy format left out.
LoadWithoutFilter(e) ==
    LET numbered == NumberedFrom(e.numbered, 0)
    IN  IF numbered # <<>> THEN numbered
        ELSE IF Truthy(e.legacy) THEN TrimAll(e.legacy)
        ELSE <<>>

\* The seed phrases the constructor loads (lines 40-64); it throws when the
\* list is empty.
LoadSeedPhrases(e) ==
    LET numbered == NumberedFrom(e.numbered, 0)
    IN  IF numbered # <<>> THEN numbered
        ELSE IF Truthy(e.legacy) THEN SplitTrimFilter(e.legacy)
        ELSE <<>>

\* After construction: the seed phrases loaded from some environment.
Init ==
    /\ \E e \in Envs :
         /\ LoadSeedPhrases(e) # <<>>
         /\ seedPhrases = LoadSeedPhrases(e)
    /\ op = "idle"
    /\ tpc = "none" /\ req = NoReq /\ balance = -1 /\ gasPrice = -1
    /\ sentValue = 0 /\ outcome = "none" /\ calls = <<>>
    /\ spc = "none" /\ maxIndex = 0 /\ phrasePos = 1 /\ i = 0
    /\ walletsWithBalance = <<>> /\ visited = <<>>
    /\ cbpc = "none" /\ cbAddress = "" /\ cbAnswer = -1 /\ cbCalls = 0
    /\ cbResult = NoResult
    /\ args = <<>> /\ cliOut = NoCliOut
    /\ env = NoEnv

\* ---------------------------------------------------------------- transfer
Fail(kind) == tpc' = "Failed" /\ outcome' = kind

\* transfer(seedPhrase, walletIndex, toAddress, amountEth) is called.
TransferCall ==
    /\ op = "idle"
    /\ \E k \in 1..Len(seedPhrases), w \in 0..1, to \in AddressTexts, a \in AmountTexts :
         req' = [seedPhrase |-> seedPhrases[k], walletIndex |-> w,
                 toAddress |-> to, amountEth |-> a]
    /\ op' = "transfer" /\ tpc' = "Validating"
    /\ balance' = -1 /\ gasPrice' = -1 /\ sentValue' = 0
    /\ outcome' = "none" /\ calls' = <<>>
    /\ UNCHANGED <<seedPhrases, scanVars, balanceVars, cliVars, env>>

\* Validate without the address check.
ValidateNothing ==
    /\ op = "transfer" /\ tpc = "Validating"
    /\ tpc' = "Deriving"
    /\ UNCHANGED <<seedPhrases, op, req, balance, gasPrice, sentValue, outcome, calls, scanVars, balanceVars, cliVars, env>>

\* if (!isAddress(toAddress)) throw
Validate ==
    /\ op = "transfer" /\ tpc = "Validating"
    /\ IF isAddress(req.toAddress)
       THEN tpc' = "Deriving" /\ UNCHANGED outcome
       ELSE Fail("InvalidInput")
    /\ UNCHANGED <<seedPhrases, op, req, balance, gasPrice, sentValue, calls, scanVars, balanceVars, cliVars, env>>

\* const account = this.getAccountFromSeed(seedPhrase, walletIndex)
Derive ==
    /\ op = "transfer" /\ tpc = "Deriving"
    /\ IF getAccountFromSeed(req.seedPhrase, req.walletIndex).ok
       THEN tpc' = "CheckingBalance" /\ UNCHANGED outcome
       ELSE Fail("InvalidSeedPhrase")
    /\ UNCHANGED <<seedPhrases, op, req, balance, gasPrice, sentValue, calls, scanVars, balanceVars, cliVars, env>>

\* await getBalance; if (parseFloat(amountEth) > parseFloat(formatEther(balance))) throw
CheckBalance ==
    /\ op = "transfer" /\ tpc = "CheckingBalance"
    /\ calls' = Append(calls, "getBalance")
    /\ \/ Fail("NetworkError") /\ UNCHANGED balance
       \/ \E b \in Balances :
            /\ balance' = b
            /\ IF FloatGreater(parseFloat(req.amountEth), parseFloat(formatEther(b)))
               THEN Fail("InsufficientFunds")
               ELSE tpc' = "EstimatingFee" /\ UNCHANGED outcome
    /\ UNCHANGED <<seedPhrases, op, req, gasPrice, sentValue, scanVars, balanceVars, cliVars, env>>

\* EstimateFee with the gas cost left out of the total.
EstimateFeeAmountOnly ==
    /\ op = "transfer" /\ tpc = "EstimatingFee"
    /\ calls' = Append(calls, "getGasPrice")
    /\ \/ Fail("NetworkError") /\ UNCHANGED gasPrice
       \/ \E g \in GasPrices :
            /\ gasPrice' = g
            /\ LET value == parseEther(req.amountEth)
               IN  IF ~value.ok THEN Fail("InvalidDecimalNumber")
                   ELSE IF value.wei > balance THEN Fail("InsufficientFunds")
                   ELSE tpc' = "Submitting" /\ UNCHANGED outcome
    /\ UNCHANGED <<seedPhrases, op, req, balance, sentValue, scanVars, balanceVars, cliVars, env>>

\* EstimateFee with a failed getGasPrice caught instead of thrown.
EstimateFeeSwallowError ==
    /\ op = "transfer" /\ tpc = "EstimatingFee"
    /\ calls' = Append(calls, "getGasPrice")
    /\ \/ tpc' = "Submitting" /\ UNCHANGED <<gasPrice, outcome>>
       \/ \E g \in GasPrices :
            /\ gasPrice' = g
            /\ LET gasCost == estimatedGas * g
                   value == parseEther(req.amountEth)
               IN  IF ~value.ok THEN Fail("InvalidDecimalNumber")
                   ELSE IF value.wei + gasCost > balance THEN Fail("InsufficientFunds")
                   ELSE tpc' = "Submitting" /\ UNCHANGED outcome
    /\ UNCHANGED <<seedPhrases, op, req, balance, sentValue, scanVars, balanceVars, cliVars, env>>

\* await getGasPrice; totalNeeded = parseEther(amountEth) + 21000n * gasPrice;
\* if (totalNeeded > balance) throw
EstimateFee ==
    /\ op = "transfer" /\ tpc = "EstimatingFee"
    /\ calls' = Append(calls, "getGasPrice")
    /\ \/ Fail("NetworkError") /\ UNCHANGED gasPrice
       \/ \E g \in GasPrices :
            /\ gasPrice' = g
            /\ LET gasCost == estimatedGas * g
                   value == parseEther(req.amountEth)
               IN  IF ~value.ok THEN Fail("InvalidDecimalNumber")
                   ELSE IF value.wei + gasCost > balance THEN Fail("InsufficientFunds")
                   ELSE tpc' = "Submitting" /\ UNCHANGED outcome
    /\ UNCHANGED <<seedPhrases, op, req, balance, sentValue, scanVars, balanceVars, cliVars, env>>

\* Submit that sends again when the node rejects.
SubmitRetrying ==
    /\ op = "transfer" /\ tpc = "Submitting"
    /\ calls' = Append(calls, "sendTransaction")
    /\ sentValue' = parseEther(req.amountEth).wei
    /\ \/ /\ Len(calls) < 4
          /\ UNCHANGED <<tpc, outcome>>
       \/ Fail("RejectedTransaction")
       \/ /\ parseEther(req.amountEth).wei >= 0
          /\ tpc' = "Confirming" /\ UNCHANGED outcome
    /\ UNCHANGED <<seedPhrases, op, req, balance, gasPrice, scanVars, balanceVars, cliVars, env>>

\* const hash = await walletClient.sendTransaction({account, to, value: parseEther(amountEth)})
\* The node (or the client's own encoding of a negative value) may reject.
Submit ==
    /\ op = "transfer" /\ tpc = "Submitting"
    /\ calls' = Append(calls, "sendTransaction")
    /\ sentValue' = parseEther(req.amountEth).wei
    /\ \/ Fail("RejectedTransaction")
       \/ /\ parseEther(req.amountEth).wei >= 0
          /\ tpc' = "Confirming" /\ UNCHANGED outcome
    /\ UNCHANGED <<seedPhrases, op, req, balance, gasPrice, scanVars, balanceVars, cliVars, env>>

\* Confirm that returns the hash without waiting for the receipt.
ConfirmWithoutWaiting ==
    /\ op = "transfer" /\ tpc = "Confirming"
    /\ tpc' = "Done" /\ outcome' = "hash"
    /\ UNCHANGED <<seedPhrases, op, req, balance, gasPrice, sentValue, calls, scanVars, balanceVars, cliVars, env>>

\* Confirm that reports a timeout as a rejection.
ConfirmTimeoutAsRejected ==
    /\ op = "transfer" /\ tpc = "Confirming"
    /\ calls' = Append(calls, "waitForTransactionReceipt")
    /\ \/ Fail("RejectedTransaction")
       \/ tpc' = "Done" /\ outcome' = "hash"
    /\ UNCHANGED <<seedPhrases, op, req, balance, gasPrice, sentValue, scanVars, balanceVars, cliVars, env>>

\* const receipt = await waitForTransactionReceipt({hash}); return hash
Confirm ==
    /\ op = "transfer" /\ tpc = "Confirming"
    /\ calls' = Append(calls, "waitForTransactionReceipt")
    /\ \/ Fail("Timeout")
       \/ tpc' = "Done" /\ outcome' = "hash"
    /\ UNCHANGED <<seedPhrases, op, req, balance, gasPrice, sentValue, scanVars, balanceVars, cliVars, env>>

\* The call has returned or thrown; the caller goes on.
TransferReturn ==
    /\ op = "transfer" /\ tpc \in {"Done", "Failed"}
    /\ op' = "idle" /\ tpc' = "none" /\ req' = NoReq
    /\ balance' = -1 /\ gasPrice' = -1 /\ sentValue' = 0
    /\ outcome' = "none" /\ calls' = <<>>
    /\ args' = <<>> /\ cliOut' = NoCliOut
    /\ UNCHANGED <<seedPhrases, scanVars, balanceVars, env>>

\* -------------------------------------------------- listWalletsWithBalance
\* The loop position after the iteration at (pos, idx): i++ and, when the
\* inner loop has run out, the next seed phrase.
AfterIteration(pos, idx, m) ==
    IF idx + 1 < m THEN <<pos, idx + 1>> ELSE <<pos + 1, 0>>

\* The balance test with >= for >.
HasBalanceOrZero(bal) == bal >= 0

\* if (balance > 0n)
HasBalance(bal) == bal > 0

\* The entry pushed for an account with a balance.
WalletInfo(seedPhrase, index, bal) ==
    [address |-> getAccountFromSeed(seedPhrase, index).address,
     balance |-> bal,
     balanceEth |-> formatEther(bal),
     index |-> index,
     seedPhrase |-> SeedLabel(seedPhrase)]

\* listWalletsWithBalance(maxIndex) is called.  With maxIndex = 0 no inner
\* loop has an iteration.
ScanCall ==
    /\ op = "idle"
    /\ \E m \in 0..MaxIndex :
         /\ maxIndex' = m
         /\ phrasePos' = IF m = 0 THEN Len(seedPhrases) + 1 ELSE 1
    /\ op' = "scan" /\ spc' = "loop" /\ i' = 0
    /\ walletsWithBalance' = <<>> /\ visited' = <<>>
    /\ UNCHANGED <<seedPhrases, transferVars, balanceVars, cliVars, env>>

\* ScanIteration that asks again for a balance whose query failed.
ScanIterationRetry ==
    /\ op = "scan" /\ spc = "loop" /\ phrasePos <= Len(seedPhrases)
    /\ LET seedPhrase == seedPhrases[phrasePos]
           account == getAccountFromSeed(seedPhrase, i)
           visit(d, a) == [pos |-> phrasePos, index |-> i, derived |-> d, answer |-> a]
           goOn == /\ phrasePos' = AfterIteration(phrasePos, i, maxIndex)[1]
                   /\ i' = AfterIteration(phrasePos, i, maxIndex)[2]
       IN  IF ~account.ok
           THEN /\ visited' = Append(visited, visit(FALSE, -2))
                /\ UNCHANGED walletsWithBalance
                /\ goOn
           ELSE \/ /\ \A k \in DOMAIN visited : <<visited[k].pos, visited[k].index>> # <<phrasePos, i>>
                   /\ visited' = Append(visited, visit(TRUE, -1))
                   /\ UNCHANGED <<walletsWithBalance, phrasePos, i>>
                \/ /\ visited' = Append(visited, visit(TRUE, -1))
                   /\ UNCHANGED walletsWithBalance
                   /\ goOn
                \/ \E b \in ScanBalances :
                     /\ visited' = Append(visited, visit(TRUE, b))
                     /\ walletsWithBalance' =
                          IF HasBalance(b)
                          THEN Append(walletsWithBalance, WalletInfo(seedPhrase, i, b))
                          ELSE walletsWithBalance
                     /\ goOn
    /\ UNCHANGED <<seedPhrases, op, spc, maxIndex, transferVars, balanceVars, cliVars, env>>

\* ScanIteration without the try/catch: a failed derivation or query ends
\* the loops.
ScanIterationRethrow ==
    /\ op = "scan" /\ spc = "loop" /\ phrasePos <= Len(seedPhrases)
    /\ LET seedPhrase == seedPhrases[phrasePos]
           account == getAccountFromSeed(seedPhrase, i)
           visit(d, a) == [pos |-> phrasePos, index |-> i, derived |-> d, answer |-> a]
           goOn == /\ phrasePos' = AfterIteration(phrasePos, i, maxIndex)[1]
                   /\ i' = AfterIteration(phrasePos, i, maxIndex)[2]
           stop == phrasePos' = Len(seedPhrases) + 1 /\ i' = 0
       IN  IF ~account.ok
           THEN /\ visited' = Append(visited, visit(FALSE, -2))
                /\ UNCHANGED walletsWithBalance
                /\ stop
           ELSE \/ /\ visited' = Append(visited, visit(TRUE, -1))
                   /\ UNCHANGED walletsWithBalance
                   /\ stop
                \/ \E b \in ScanBalances :
                     /\ visited' = Append(visited, visit(TRUE, b))
                     /\ walletsWithBalance' =
                          IF HasBalance(b)
                          THEN Append(walletsWithBalance, WalletInfo(seedPhrase, i, b))
                          ELSE walletsWithBalance
                     /\ goOn
    /\ UNCHANGED <<seedPhrases, op, spc, maxIndex, transferVars, balanceVars, cliVars, env>>

\* ScanIteration with the derivation outside the try: an undecodable seed
\* phrase makes the scan raise.
ScanIterationDeriveUncaught ==
    /\ op = "scan" /\ spc = "loop" /\ phrasePos <= Len(seedPhrases)
    /\ LET seedPhrase == seedPhrases[phrasePos]
           account == getAccountFromSeed(seedPhrase, i)
           visit(d, a) == [pos |-> phrasePos, index |-> i, derived |-> d, answer |-> a]
           goOn == /\ phrasePos' = AfterIteration(phrasePos, i, maxIndex)[1]
                   /\ i' = AfterIteration(phrasePos, i, maxIndex)[2]
                   /\ UNCHANGED spc
       IN  IF ~account.ok
           THEN /\ visited' = Append(visited, visit(FALSE, -2))
                /\ spc' = "raised"
                /\ UNCHANGED <<walletsWithBalance, phrasePos, i>>
           ELSE \/ /\ visited' = Append(visited, visit(TRUE, -1))
                   /\ UNCHANGED walletsWithBalance
                   /\ goOn
                \/ \E b \in ScanBalances :
                     /\ visited' = Append(visited, visit(TRUE, b))
                     /\ walletsWithBalance' =
                          IF HasBalance(b)
                          THEN Append(walletsWithBalance, WalletInfo(seedPhrase, i, b))
                          ELSE walletsWithBalance
                     /\ goOn
    /\ UNCHANGED <<seedPhrases, op, maxIndex, transferVars, balanceVars, cliVars, env>>

\* One iteration of the inner loop: try { derive; await getBalance;
\* if (balance > 0n) push } catch { console.error }.
ScanIteration ==
    /\ op = "scan" /\ spc = "loop" /\ phrasePos <= Len(seedPhrases)
    /\ LET seedPhrase == seedPhrases[phrasePos]
           account == getAccountFromSeed(seedPhrase, i)
           visit(d, a) == [pos |-> phrasePos, index |-> i, derived |-> d, answer |-> a]
       IN  IF ~account.ok
           THEN /\ visited' = Append(visited, visit(FALSE, -2))
                /\ UNCHANGED walletsWithBalance
           ELSE \/ /\ visited' = Append(visited, visit(TRUE, -1))
                   /\ UNCHANGED walletsWithBalance
                \/ \E b \in ScanBalances :
                     /\ visited' = Append(visited, visit(TRUE, b))
                     /\ walletsWithBalance' =
                          IF HasBalance(b)
                          THEN Append(walletsWithBalance, WalletInfo(seedPhrase, i, b))
                          ELSE walletsWithBalance
    /\ phrasePos' = AfterIteration(phrasePos, i, maxIndex)[1]
    /\ i' = AfterIteration(phrasePos, i, maxIndex)[2]
    /\ UNCHANGED <<seedPhrases, op, spc, maxIndex, transferVars, balanceVars, cliVars, env>>

\* return walletsWithBalance
ScanReturn ==
    /\ op = "scan" /\ spc = "loop" /\ phrasePos > Len(seedPhrases)
    /\ spc' = "returned"
    /\ UNCHANGED <<seedPhrases, op, maxIndex, phrasePos, i, walletsWithBalance, visited, transferVars, balanceVars, cliVars, env>>

\* The caller has the result and goes on.
ScanDone ==
    /\ op = "scan" /\ spc = "returned"
    /\ op' = "idle" /\ spc' = "none" /\ maxIndex' = 0 /\ phrasePos' = 1 /\ i' = 0
    /\ walletsWithBalance' = <<>> /\ visited' = <<>>
    /\ UNCHANGED <<seedPhrases, transferVars, balanceVars, cliVars, env>>

\* ------------------------------------------------------------ checkBalance
\* checkBalance(address) is called.
BalanceCall ==
    /\ op = "idle"
    /\ \E a \in AddressTexts : cbAddress' = a
    /\ op' = "balance" /\ cbpc' = "Validating"
    /\ cbAnswer' = -1 /\ cbCalls' = 0 /\ cbResult' = NoResult
    /\ UNCHANGED <<seedPhrases, transferVars, scanVars, cliVars, env>>

\* BalanceValidate without the address check.
BalanceValidateNothing ==
    /\ op = "balance" /\ cbpc = "Validating"
    /\ cbpc' = "Querying"
    /\ UNCHANGED <<seedPhrases, op, cbAddress, cbAnswer, cbCalls, cbResult,
                   transferVars, scanVars, cliVars, env>>

\* if (!isAddress(address)) throw
BalanceValidate ==
    /\ op = "balance" /\ cbpc = "Validating"
    /\ IF isAddress(cbAddress)
       THEN cbpc' = "Querying" /\ UNCHANGED cbResult
       ELSE cbpc' = "Failed" /\ cbResult' = [kind |-> "InvalidInput", text |-> <<>>]
    /\ UNCHANGED <<seedPhrases, op, cbAddress, cbAnswer, cbCalls,
                   transferVars, scanVars, cliVars, env>>

\* const balance = await getBalance({address}); return formatEther(balance)
BalanceQuery ==
    /\ op = "balance" /\ cbpc = "Querying"
    /\ cbCalls' = cbCalls + 1
    /\ \/ /\ cbpc' = "Failed"
          /\ cbResult' = [kind |-> "NetworkError", text |-> <<>>]
          /\ UNCHANGED cbAnswer
       \/ \E b \in Balances :
            /\ cbAnswer' = b
            /\ cbpc' = "Done"
            /\ cbResult' = [kind |-> "value", text |-> formatEther(b)]
    /\ UNCHANGED <<seedPhrases, op, cbAddress, transferVars, scanVars, cliVars, env>>

\* The call has returned or thrown; the caller goes on.
BalanceReturn ==
    /\ op = "balance" /\ cbpc \in {"Done", "Failed"}
    /\ op' = "idle" /\ cbpc' = "none" /\ cbAddress' = ""
    /\ cbAnswer' = -1 /\ cbCalls' = 0 /\ cbResult' = NoResult
    /\ UNCHANGED <<seedPhrases, transferVars, scanVars, cliVars, env>>

\* ------------------------------------------------------ main (command line)
\* args[k] of the source (0-based); an absent argument reads as undefined,
\* which every use here treats as the empty string.
ArgAt(a, k) == IF k < Len(a) THEN a[k + 1] ELSE ""

\* x || "0"
OrZero(tok) == IF tok = "" THEN "0" ELSE tok

\* parseInt(tok): the leading integer of the text (hexadecimal after "0x"),
\* NaN when there is none.
parseInt(tok) ==
    CASE tok = "0" -> [nan |-> FALSE, v |-> 0]
      [] tok = "1" -> [nan |-> FALSE, v |-> 1]
      [] tok = "2" -> [nan |-> FALSE, v |-> 2]
      [] tok = "7" -> [nan |-> FALSE, v |-> 7]
      [] tok = "-1" -> [nan |-> FALSE, v |-> 0 - 1]
      [] tok = "0xRecipient" -> [nan |-> FALSE, v |-> 2147483647]
      [] OTHER -> [nan |-> TRUE, v |-> 0]

\* The amount text of a command-line token.
AmountText(tok) ==
    CASE tok \in {"0", "1", "2", "7"} ->
             [form |-> "decimal", ticks |-> parseInt(tok).v * TicksPerWei]
      [] tok = "-1" -> [form |-> "negative", ticks |-> TicksPerWei]
      [] tok = "0xRecipient" -> [form |-> "trailing", ticks |-> 0]
      [] OTHER -> [form |-> "garbage", ticks |-> 0]

\* The phrase at the index, or the last one.
PhraseOrLast(list, n) ==
    IF ~n.nan /\ n.v >= 0 /\ n.v < Len(list) THEN list[n.v + 1] ELSE list[Len(list)]

\* seedPhrases[n] || seedPhrases[0]
PhraseOrFirst(list, n) ==
    IF ~n.nan /\ n.v >= 0 /\ n.v < Len(list) THEN list[n.v + 1] ELSE list[1]

\* getPrivateKey: the hex string of the private key of (seed phrase, index).
getPrivateKey(seedPhrase, index) == <<"privateKey", seedPhrase, index>>

PhraseIndexTokens == {"0", "1", "2", "7", "-1", "abc"}
WalletIndexTokens == {"0", "1"}
AmountTokens == {"1", "abc", "-1"}

\* The command lines of `transfer`: the two documented formats, and the
\* incomplete ones.
TransferCommandLines ==
    {<<"transfer", w, to, amt>> :
        w \in WalletIndexTokens, to \in AddressTexts, amt \in AmountTokens}
    \cup {<<"transfer", ph, w, to, amt>> :
        ph \in PhraseIndexTokens, w \in WalletIndexTokens,
        to \in {"0xRecipient"}, amt \in AmountTokens}
    \cup {<<"transfer">>, <<"transfer", "0">>, <<"transfer", "0", "0xRecipient">>}

\* The command lines of `address`, `privatekey` and `key`.
KeyCommandLines ==
    LET cmds == {"address", "privatekey", "key"}
    IN  {<<c>> : c \in cmds}
        \cup {<<c, ph>> : c \in cmds, ph \in PhraseIndexTokens}
        \cup {<<c, ph, w>> : c \in cmds, ph \in PhraseIndexTokens, w \in WalletIndexTokens}

\* case "transfer"
CliTransfer ==
    /\ op = "idle"
    /\ \E a \in TransferCommandLines :
         LET newFormat == Len(a) >= 4
             phraseIndex == IF newFormat THEN parseInt(OrZero(ArgAt(a, 1)))
                            ELSE [nan |-> FALSE, v |-> 0]
             walletIndex == IF newFormat THEN parseInt(OrZero(ArgAt(a, 2)))
                            ELSE parseInt(OrZero(ArgAt(a, 1)))
             toAddress == IF newFormat THEN ArgAt(a, 3) ELSE ArgAt(a, 2)
             amount == IF newFormat THEN ArgAt(a, 4) ELSE ArgAt(a, 3)
             seedPhrase == PhraseOrFirst(seedPhrases, phraseIndex)
         IN  /\ args' = a
             /\ IF toAddress = "" \/ amount = ""
                THEN /\ op' = "cli"
                     /\ cliOut' = [NoCliOut EXCEPT !.did = "usage"]
                     /\ UNCHANGED transferVars
                ELSE /\ op' = "transfer" /\ tpc' = "Validating"
                     /\ cliOut' = [NoCliOut EXCEPT !.did = "transfer",
                                                   !.seedPhrase = seedPhrase,
                                                   !.walletIndex = walletIndex.v]
                     /\ req' = [seedPhrase |-> seedPhrase, walletIndex |-> walletIndex.v,
                                toAddress |-> toAddress, amountEth |-> AmountText(amount)]
                     /\ balance' = -1 /\ gasPrice' = -1 /\ sentValue' = 0
                     /\ outcome' = "none" /\ calls' = <<>>
    /\ UNCHANGED <<seedPhrases, scanVars, balanceVars, env>>

\* case "address", case "privatekey" / "key"
CliKey ==
    /\ op = "idle"
    /\ \E a \in KeyCommandLines :
         LET phraseIdx == parseInt(OrZero(ArgAt(a, 1)))
             walletIdx == parseInt(OrZero(ArgAt(a, 2)))
             seed == PhraseOrFirst(seedPhrases, phraseIdx)
             account == getAccountFromSeed(seed, walletIdx.v)
             out == [NoCliOut EXCEPT !.seedPhrase = seed, !.walletIndex = walletIdx.v]
         IN  /\ args' = a
             /\ cliOut' =
                  IF ~account.ok THEN [out EXCEPT !.did = "error"]
                  ELSE IF a[1] = "address"
                  THEN [out EXCEPT !.did = "address", !.shown = <<account.address>>]
                  ELSE [out EXCEPT !.did = "privatekey",
                                   !.shown = <<account.address, getPrivateKey(seed, walletIdx.v)>>]
    /\ op' = "cli"
    /\ UNCHANGED <<seedPhrases, transferVars, scanVars, balanceVars, env>>

\* main returns, or process.exit(1).
CliExit ==
    /\ op = "cli"
    /\ op' = "idle" /\ args' = <<>> /\ cliOut' = NoCliOut
    /\ UNCHANGED <<seedPhrases, transferVars, scanVars, balanceVars, env>>

Next ==
    \/ TransferCall \/ Validate \/ Derive \/ CheckBalance \/ EstimateFee
    \/ Submit \/ Confirm \/ TransferReturn
    \/ ScanCall \/ ScanIteration \/ ScanReturn \/ ScanDone
    \/ BalanceCall \/ BalanceValidate \/ BalanceQuery \/ BalanceReturn
    \/ CliTransfer \/ CliKey \/ CliExit

Spec == Init /\ [][Next]_vars

\* The scan is sequential code whose awaited calls each settle (the transport
\* resolves or rejects every request), so a started iteration and the return
\* after the loops do happen.
FairSpec == Spec /\ WF_vars(ScanIteration) /\ WF_vars(ScanReturn)

\* ------------------------------------------- the constructor, step by step
\* Before construction: any environment.
InitCtor ==
    /\ env \in Envs
    /\ op = "start" /\ seedPhrases = <<>>
    /\ tpc = "none" /\ req = NoReq /\ balance = -1 /\ gasPrice = -1
    /\ sentValue = 0 /\ outcome = "none" /\ calls = <<>>
    /\ spc = "none" /\ maxIndex = 0 /\ phrasePos = 1 /\ i = 0
    /\ walletsWithBalance = <<>> /\ visited = <<>>
    /\ cbpc = "none" /\ cbAddress = "" /\ cbAnswer = -1 /\ cbCalls = 0
    /\ cbResult = NoResult
    /\ args = <<>> /\ cliOut = NoCliOut

\* new SimpleWallet(): loads the seed phrases, or throws when there are none.
Construct ==
    /\ op = "start"
    /\ seedPhrases' = LoadSeedPhrases(env)
    /\ op' = IF LoadSeedPhrases(env) = <<>> THEN "constructFailed" ELSE "idle"
    /\ UNCHANGED <<transferVars, scanVars, balanceVars, cliVars, env>>

SpecCtor == InitCtor /\ [][Construct]_vars

\* ============================================================== properties
Count(s, x) == Cardinality({k \in DOMAIN s : s[k] = x})
IsPrefix(s, t) == Len(s) <= Len(t) /\ SubSeq(t, 1, Len(s)) = s
RemoteCallOrder == <<"getBalance", "getGasPrice", "sendTransaction", "waitForTransactionReceipt">>
Terminal == tpc \in {"Done", "Failed"}
Submitted == Count(calls, "sendTransaction") > 0

\* The amount of the request and the balance read, both in ticks.
AmountIsDecimal == req.amountEth.form = "decimal"
AmountTicks == req.amountEth.ticks
BalanceTicks == balance * TicksPerWei
FeeTicks == estimatedGas * gasPrice * TicksPerWei

\* C1: within one transfer call sendTransaction is invoked at most once,
\* whatever the outcomes of the reads, the submit and the confirmation wait.
C1_SubmitAtMostOnce == Count(calls, "sendTransaction") <= 1

C1_Witness ==
    /\ op = "transfer" /\ tpc = "Failed"
    /\ outcome \in {"RejectedTransaction", "Timeout"}
    /\ Count(calls, "sendTransaction") = 1

\* C2 (as claimed): for a decimal amount and a balance that was read, the
\* call fails with InsufficientFunds when amount > balance and when
\* amount <= balance < amount + fee (unless a read failed), and
\* sendTransaction is invoked only when amount + fee <= balance.
C2_Affordability ==
    (op = "transfer" /\ AmountIsDecimal /\ balance >= 0) =>
        /\ (Terminal /\ AmountTicks > BalanceTicks /\ outcome # "NetworkError") =>
               (outcome = "InsufficientFunds" /\ ~Submitted)
        /\ (Terminal /\ gasPrice >= 0 /\ AmountTicks <= BalanceTicks
                /\ BalanceTicks < AmountTicks + FeeTicks) =>
               (outcome = "InsufficientFunds" /\ ~Submitted)
        /\ Submitted => (gasPrice >= 0 /\ AmountTicks + FeeTicks <= BalanceTicks)

\* C2 (amended): the same with the amount taken as the wei value parseEther
\* gives it, which is the value submitted.
AmountWei == parseEther(req.amountEth).wei
Fee == estimatedGas * gasPrice

C2_AffordabilityInWei ==
    (op = "transfer" /\ AmountIsDecimal /\ balance >= 0) =>
        /\ (Terminal /\ AmountWei > balance /\ outcome # "NetworkError") =>
               (outcome = "InsufficientFunds" /\ ~Submitted)
        /\ (Terminal /\ gasPrice >= 0 /\ AmountWei <= balance
                /\ balance < AmountWei + Fee) =>
               (outcome = "InsufficientFunds" /\ ~Submitted)
        /\ Submitted =>
               (gasPrice >= 0 /\ AmountWei + Fee <= balance /\ sentValue = AmountWei)

C2_Witness ==
    /\ op = "transfer" /\ tpc = "Failed" /\ outcome = "InsufficientFunds"
    /\ AmountIsDecimal /\ gasPrice = 1 /\ AmountWei > 0
    /\ AmountWei <= balance /\ balance < AmountWei + Fee
    /\ calls = <<"getBalance", "getGasPrice">>

\* C3: a transfer with a malformed recipient address fails with InvalidInput
\* and has made no remote call.
C3_BadAddressNoRemoteCall ==
    (op = "transfer" /\ ~isAddress(req.toAddress)) =>
        /\ calls = <<>>
        /\ tpc \in {"Validating", "Failed"}
        /\ tpc = "Failed" => outcome = "InvalidInput"

C3_Witness ==
    /\ op = "transfer" /\ tpc = "Failed" /\ ~isAddress(req.toAddress)
    /\ outcome = "InvalidInput" /\ calls = <<>>

\* C4 (as claimed): a transfer with a well-formed recipient (and a valid seed
\* phrase) whose amount is no non-negative decimal makes no remote call, never
\* submits, and fails with InvalidInput.
C4_BadAmountNoRemoteCall ==
    (op = "transfer" /\ isAddress(req.toAddress) /\ ValidMnemonic(req.seedPhrase)
        /\ ~AmountIsDecimal) =>
        /\ calls = <<>>
        /\ Terminal => (tpc = "Failed" /\ outcome = "InvalidInput")

\* C5: the steps of a transfer occur in the order Validating, Deriving,
\* CheckingBalance, EstimatingFee, Submitting, Confirming, Done, one remote
\* call per step in that order; a failure ends the call with no later step;
\* the hash is returned only after waitForTransactionReceipt has answered.
StepOrder ==
    {<<"none", "Validating">>, <<"Validating", "Deriving">>,
     <<"Deriving", "CheckingBalance">>, <<"CheckingBalance", "EstimatingFee">>,
     <<"EstimatingFee", "Submitting">>, <<"Submitting", "Confirming">>,
     <<"Confirming", "Done">>, <<"Done", "none">>, <<"Failed", "none">>}
        \cup {<<st, "Failed">> : st \in {"Validating", "Deriving", "CheckingBalance",
                                         "EstimatingFee", "Submitting", "Confirming"}}

CallsAtStep ==
    CASE tpc \in {"none", "Validating", "Deriving", "CheckingBalance"} -> calls = <<>>
      [] tpc = "EstimatingFee" -> calls = SubSeq(RemoteCallOrder, 1, 1)
      [] tpc = "Submitting" -> calls = SubSeq(RemoteCallOrder, 1, 2)
      [] tpc = "Confirming" -> calls = SubSeq(RemoteCallOrder, 1, 3)
      [] tpc = "Done" -> calls = RemoteCallOrder
      [] OTHER -> IsPrefix(calls, RemoteCallOrder)

C5_StepOrder ==
    /\ [](CallsAtStep /\ (outcome = "hash" <=> tpc = "Done"))
    /\ [][/\ tpc' # tpc => <<tpc, tpc'>> \in StepOrder
          /\ (tpc = "Failed" /\ tpc' = "Failed") => calls' = calls]_vars

C5_Witness == op = "transfer" /\ tpc = "Done" /\ outcome = "hash" /\ calls = RemoteCallOrder

\* C6 (as claimed): when the amount alone exceeds the balance that was read,
\* the call fails with InsufficientFunds and getGasPrice is never invoked.
\* Stated for amounts that are a whole number of wei.
C6_FastFailBeforeFee ==
    (op = "transfer" /\ AmountIsDecimal /\ AmountTicks % TicksPerWei = 0
        /\ balance >= 0 /\ AmountTicks > BalanceTicks) =>
        /\ Count(calls, "getGasPrice") = 0
        /\ Terminal => (tpc = "Failed" /\ outcome = "InsufficientFunds")

\* C7: when waitForTransactionReceipt fails after a successful submit, the
\* call fails with Timeout (not RejectedTransaction, not success), and the
\* one submit is neither repeated nor taken back.
C7_TimeoutSurfaced ==
    /\ (op = "transfer" /\ Count(calls, "waitForTransactionReceipt") > 0 /\ tpc # "Done") =>
           /\ tpc = "Failed" /\ outcome = "Timeout"
           /\ Count(calls, "sendTransaction") = 1
    /\ outcome = "Timeout" => Count(calls, "waitForTransactionReceipt") = 1
    /\ outcome = "RejectedTransaction" =>
           (Count(calls, "waitForTransactionReceipt") = 0 /\ Submitted)

C7_Witness ==
    /\ op = "transfer" /\ tpc = "Failed" /\ outcome = "Timeout"
    /\ calls = RemoteCallOrder

\* C8: when getBalance or getGasPrice fails, the call stops with NetworkError,
\* and neither sendTransaction nor waitForTransactionReceipt is invoked.
C8_NetworkErrorStops ==
    /\ (op = "transfer" /\ Count(calls, "getBalance") > 0 /\ balance = -1) =>
           (tpc = "Failed" /\ outcome = "NetworkError" /\ calls = <<"getBalance">>)
    /\ (op = "transfer" /\ Count(calls, "getGasPrice") > 0 /\ gasPrice = -1) =>
           (tpc = "Failed" /\ outcome = "NetworkError"
               /\ calls = <<"getBalance", "getGasPrice">>)
    /\ outcome = "NetworkError" =>
           (~Submitted /\ Count(calls, "waitForTransactionReceipt") = 0)

C8_Witness ==
    /\ op = "transfer" /\ tpc = "Failed" /\ outcome = "NetworkError"
    /\ calls = <<"getBalance", "getGasPrice">> /\ balance >= 0

\* The (position, index) pair of the k-th iteration in phrase order, then
\* index order.
CanonicalPair(k, m) == <<((k - 1) \div m) + 1, (k - 1) % m>>

\* The entries owed to a log of iterations: one per iteration whose queried
\* balance was > 0, in the order of the log.
RECURSIVE EntriesOf(_)
EntriesOf(log) ==
    IF log = <<>> THEN <<>>
    ELSE LET v == log[Len(log)]
             before == EntriesOf(SubSeq(log, 1, Len(log) - 1))
         IN  IF v.answer > 0
             THEN Append(before, [address |-> <<seedPhrases[v.pos], v.index>>,
                                  balance |-> v.answer,
                                  balanceEth |-> formatEther(v.answer),
                                  index |-> v.index,
                                  seedPhrase |-> SeedLabel(seedPhrases[v.pos])])
             ELSE before

\* C9: a scan over N phrases with maxIndex M makes exactly N*M derivations,
\* one per pair in phrase order then index order, and returns exactly the
\* entries of the pairs whose queried balance was > 0, in that order.
C9_ScanComplete ==
    (op = "scan") =>
        /\ \A k \in DOMAIN visited :
               <<visited[k].pos, visited[k].index>> = CanonicalPair(k, maxIndex)
        /\ walletsWithBalance = EntriesOf(visited)
        /\ Len(walletsWithBalance) <= Len(seedPhrases) * maxIndex
        /\ spc = "returned" => Len(visited) = Len(seedPhrases) * maxIndex

C9_Witness ==
    /\ op = "scan" /\ spc = "returned"
    /\ Len(seedPhrases) = 2 /\ maxIndex = 2 /\ Len(visited) = 4
    /\ Len(walletsWithBalance) = 2
    /\ walletsWithBalance[1].index = 1 /\ walletsWithBalance[2].index = 0

\* C10: a balance query that fails during a scan neither ends nor fails the
\* scan: the failed pair adds no entry, the loop goes on to the next pair, and
\* the scan returns after all N*M pairs with the entries of the other pairs.
FailedVisits == {k \in DOMAIN visited : visited[k].answer = -1}

C10_ScanSurvivesNetworkError ==
    /\ []((op = "scan" /\ spc = "returned" /\ FailedVisits # {}) =>
            /\ Len(visited) = Len(seedPhrases) * maxIndex
            /\ Len(walletsWithBalance) =
                 Cardinality({k \in DOMAIN visited : visited[k].answer > 0}))
    /\ [][(op = "scan" /\ Len(visited') = Len(visited) + 1
             /\ visited'[Len(visited')].answer = -1) =>
            /\ walletsWithBalance' = walletsWithBalance
            /\ spc' = "loop"
            /\ <<phrasePos', i'>> = AfterIteration(phrasePos, i, maxIndex)]_vars

C10_Witness ==
    /\ op = "scan" /\ spc = "returned" /\ Len(visited) = 4
    /\ visited[2].answer = -1 /\ visited[3].answer > 0
    /\ Len(walletsWithBalance) = 1
\* C11 (as claimed): the sequence returned by a scan holds no account twice:
\* no two entries have the same address.
C11_NoDuplicateEntries ==
    (op = "scan") =>
        \A j, k \in DOMAIN walletsWithBalance :
            walletsWithBalance[j].address = walletsWithBalance[k].address => j = k

\* The queries of the balance of the pair (pos, idx) made by this scan.
QueriesOf(pos, idx) ==
    {k \in DOMAIN visited :
        visited[k].pos = pos /\ visited[k].index = idx /\ visited[k].answer # -2}
VisitsOf(pos, idx) ==
    {k \in DOMAIN visited : visited[k].pos = pos /\ visited[k].index = idx}
ScanPairs == {pr \in (1..Len(seedPhrases)) \X (0..MaxIndex) : pr[2] < maxIndex}

\* C12 (as claimed): no retries: in one transfer call each remote operation is
\* invoked at most once, and in one scan call the balance of every pair is
\* queried exactly once, also when the query fails.
C12_NoRetries ==
    /\ \A c \in {"getBalance", "getGasPrice", "sendTransaction", "waitForTransactionReceipt"} :
           Count(calls, c) <= 1
    /\ (op = "scan" /\ spc = "returned") =>
           \A pr \in ScanPairs : Cardinality(QueriesOf(pr[1], pr[2])) = 1

\* C12 (amended): the same, with a pair queried exactly once when its address
\* derives and not at all when the derivation fails; no pair is visited twice.
C12_NoRetriesOfDerivedPairs ==
    /\ \A c \in {"getBalance", "getGasPrice", "sendTransaction", "waitForTransactionReceipt"} :
           Count(calls, c) <= 1
    /\ (op = "scan") =>
           \A pr \in ScanPairs :
               /\ Cardinality(VisitsOf(pr[1], pr[2])) <= 1
               /\ spc = "returned" =>
                      Cardinality(QueriesOf(pr[1], pr[2])) =
                          IF ValidMnemonic(seedPhrases[pr[1]]) THEN 1 ELSE 0

C12_Witness ==
    /\ op = "scan" /\ spc = "returned" /\ Len(seedPhrases) = 2 /\ maxIndex = 2
    /\ seedPhrases[1] = PhraseBad /\ seedPhrases[2] = PhraseA
    /\ visited[3].answer = -1 /\ visited[4].answer = 1
    /\ Cardinality(QueriesOf(2, 0)) = 1 /\ Cardinality(QueriesOf(1, 0)) = 0
\* C13: checkBalance with a malformed address fails with InvalidInput and
\* never calls getBalance; with a well-formed address it calls getBalance
\* exactly once and returns the display form of the answer, or fails with
\* NetworkError.
C13_CheckBalance ==
    (op = "balance") =>
        /\ ~isAddress(cbAddress) =>
               /\ cbCalls = 0
               /\ cbpc \in {"Validating", "Failed"}
               /\ cbpc = "Failed" => cbResult.kind = "InvalidInput"
        /\ (isAddress(cbAddress) /\ cbpc \in {"Done", "Failed"}) =>
               /\ cbCalls = 1
               /\ cbpc = "Done" =>
                      /\ cbAnswer >= 0 /\ cbResult.kind = "value"
                      /\ cbResult.text.form = "decimal"
                      /\ cbResult.text.ticks = cbAnswer * TicksPerWei
               /\ cbpc = "Failed" => (cbAnswer = -1 /\ cbResult.kind = "NetworkError")

C13_Witness ==
    /\ op = "balance" /\ cbpc = "Done" /\ isAddress(cbAddress)
    /\ cbCalls = 1 /\ cbAnswer = 3 /\ cbResult.text.ticks = 3 * TicksPerWei
\* C14 (as claimed): the transfer command accepts both documented formats.
\* Three arguments (walletIndex, toAddress, amountEth) call transfer with the
\* first seed phrase; four (phraseIndex, walletIndex, toAddress, amountEth)
\* call it with the phrase at phraseIndex; neither ends in the usage error.
C14_BothTransferFormats ==
    (Len(args) >= 4 /\ args[1] = "transfer") =>
        /\ cliOut.did = "transfer"
        /\ op = "transfer"
        /\ Len(args) = 4 =>
               req = [seedPhrase |-> seedPhrases[1],
                      walletIndex |-> parseInt(args[2]).v,
                      toAddress |-> args[3],
                      amountEth |-> AmountText(args[4])]
        /\ Len(args) = 5 =>
               /\ req.walletIndex = parseInt(args[3]).v
               /\ req.toAddress = args[4]
               /\ req.amountEth = AmountText(args[5])
               /\ parseInt(args[2]).v \in 0..(Len(seedPhrases) - 1) =>
                      req.seedPhrase = seedPhrases[parseInt(args[2]).v + 1]

\* The phrase index token of the command line in progress ("" when the
\* command line has none).
PhraseIndexToken ==
    IF args[1] = "transfer" THEN (IF Len(args) = 5 THEN args[2] ELSE "")
    ELSE ArgAt(args, 1)
SelectsExistingPhrase(tok) ==
    \/ tok \in {"", "0"}
    \/ tok = "1" /\ Len(seedPhrases) >= 2
    \/ tok = "2" /\ Len(seedPhrases) >= 3
    \/ tok = "7" /\ Len(seedPhrases) >= 8
SelectedPosition(tok) == IF tok = "" THEN 1 ELSE parseInt(tok).v + 1

\* C16: in command-line mode the seed phrase used is the one at phraseIndex
\* when that index selects an existing phrase, and silently the first one
\* when it is out of range, negative or no number; the command does not fail
\* for it, and a transfer is then made from the first phrase.
C16_PhraseIndexFallsBack ==
    (op \in {"cli", "transfer"} /\ args # <<>> /\ cliOut.did # "usage") =>
        /\ cliOut.seedPhrase =
               IF SelectsExistingPhrase(PhraseIndexToken)
               THEN seedPhrases[SelectedPosition(PhraseIndexToken)]
               ELSE seedPhrases[1]
        /\ cliOut.did = "error" => ~ValidMnemonic(cliOut.seedPhrase)
        /\ op = "transfer" => req.seedPhrase = cliOut.seedPhrase
        /\ cliOut.did \in {"address", "privatekey"} =>
               cliOut.shown[1] = <<cliOut.seedPhrase, cliOut.walletIndex>>

C16_Witness ==
    /\ op = "transfer" /\ Len(args) = 5 /\ args[2] = "7"
    /\ Len(seedPhrases) = 2 /\ seedPhrases[1] # seedPhrases[2]
    /\ req.seedPhrase = seedPhrases[1]
    /\ Count(calls, "sendTransaction") = 1 /\ tpc = "Done"
\* The numbered keys that hold a seed phrase, and those among them before the
\* first key that holds none.
SuppliedKeys == {k \in DOMAIN env.numbered : ~Blank(env.numbered[k])}
LeadingKeys == {k \in SuppliedKeys : \A j \in 1..k : j \in SuppliedKeys}

\* The texts of the non-empty segments of PHRASES, in order.
LegacyPhrases ==
    LET keep == {k \in DOMAIN env.legacy : env.legacy[k].text # <<>>}
        nth(n) == CHOOSE k \in keep : Cardinality({j \in keep : j <= k}) = n
    IN  [n \in 1..Cardinality(keep) |-> env.legacy[nth(n)].text]

Constructed == op \in {"idle", "constructFailed"}
NoEmptyPhrase ==
    /\ op = "constructFailed" <=> seedPhrases = <<>>
    /\ op = "idle" => (seedPhrases # <<>> /\ \A k \in DOMAIN seedPhrases : seedPhrases[k] # <<>>)

\* C15 (as claimed): every seed phrase under a numbered key is loaded, in
\* numeric order, trimmed; PHRASES is used only when no numbered phrase was
\* loaded; construction fails when the list is empty, so a constructed wallet
\* has a non-empty list without an empty string.
C15_AllNumberedLoaded ==
    Constructed =>
        /\ SuppliedKeys # {} =>
               /\ Len(seedPhrases) = Cardinality(SuppliedKeys)
               /\ \A k \in SuppliedKeys :
                      seedPhrases[Cardinality({j \in SuppliedKeys : j <= k})]
                          = env.numbered[k].text
        /\ SuppliedKeys = {} => seedPhrases = LegacyPhrases
        /\ NoEmptyPhrase

\* C15 (amended): the numbered keys are read from PHRASES_0 up to the first
\* key that is unset or blank; the phrases under those keys are loaded in
\* order, trimmed, and later keys are ignored; PHRASES is used only when
\* PHRASES_0 gave nothing.
C15_LeadingNumberedLoaded ==
    Constructed =>
        /\ LeadingKeys # {} =>
               /\ Len(seedPhrases) = Cardinality(LeadingKeys)
               /\ \A k \in LeadingKeys : seedPhrases[k] = env.numbered[k].text
        /\ LeadingKeys = {} => seedPhrases = LegacyPhrases
        /\ NoEmptyPhrase

C15_Witness ==
    /\ op = "idle"
    /\ env.numbered[1] = Raw(TRUE, PhraseA) /\ env.numbered[2] = Raw(FALSE, PhraseB)
    /\ env.legacy = <<Raw(FALSE, PhraseBad)>>
    /\ seedPhrases = <<PhraseA, PhraseB>>
\* The iterations of the log that did not fail.
Succeeded(log) == SelectSeq(log, LAMBDA v : v.answer >= 0)

\* C17: a scan never raises.  An iteration that fails, in the derivation
\* (an undecodable seed phrase) or in the balance query, adds no entry and is
\* followed by the next pair; every scan comes to its return, after all N*M
\* pairs, with the entries of the pairs that succeeded.
C17_ScanNeverRaises ==
    /\ [](op = "scan" => spc \in {"loop", "returned"})
    /\ [][(op = "scan" /\ Len(visited') = Len(visited) + 1
             /\ visited'[Len(visited')].answer < 0) =>
            /\ walletsWithBalance' = walletsWithBalance
            /\ spc' = "loop"
            /\ <<phrasePos', i'>> = AfterIteration(phrasePos, i, maxIndex)]_vars
    /\ []((op = "scan" /\ spc = "returned") =>
            /\ Len(visited) = Len(seedPhrases) * maxIndex
            /\ \A pr \in ScanPairs : Cardinality(VisitsOf(pr[1], pr[2])) = 1
            /\ walletsWithBalance = EntriesOf(Succeeded(visited)))
    /\ (op = "scan") ~> (op = "scan" /\ spc = "returned")

C17_Witness ==
    /\ op = "scan" /\ spc = "returned"
    /\ seedPhrases = <<PhraseBad, PhraseA>> /\ maxIndex = 2 /\ Len(visited) = 4
    /\ ~visited[1].derived /\ ~visited[2].derived
    /\ visited[3].answer = -1 /\ visited[4].answer > 0
    /\ Len(walletsWithBalance) = 1 /\ walletsWithBalance[1].index = 1
====
